---- MODULE Spec2Model ----
(***************************************************************************)
(* Data layer of the Resident QI Project Tracker (src/app.py).             *)
(*                                                                         *)
(* The program is a Streamlit script: every user interaction starts one    *)
(* run of main() from the top.  A run calls load_data() (ensure_data_dir   *)
(* and two read_csv), applies the two import uploaders if they hold a      *)
(* file, then executes the handler of the one widget that was clicked and  *)
(* calls save_data() (two to_csv, projects first, pdsa second).            *)
(*                                                                         *)
(* One run is modelled as a sequence of steps, one per file operation, so  *)
(* that runs of two browser sessions can interleave between them.  Cells   *)
(* are modelled in their two forms: the text of a CSV cell in a file or    *)
(* an uploaded stream, and the value pandas holds in memory (an integer    *)
(* for the id columns, a string or NaN for the others).                    *)
(*                                                                         *)
(* Each row carries every column of the table.  Of the form's boxes the    *)
(* user edits Title, Status and End Date; the other boxes are submitted    *)
(* as the form prefilled them.  Which button reads True is decided when    *)
(* the run reaches the button, as st.button() does.                        *)
(***************************************************************************)
EXTENDS Integers, Sequences, FiniteSets, TLC

\* ------------------------------------------------------------- bounds
MaxProjects == 3    \* most rows the Projects table holds
MaxId       == 4    \* largest project id "Add new project" may assign
MaxPdsa     == 2    \* most rows the PDSA table holds
MaxRuns     == 1    \* user-triggered runs per session when two sessions race

Sessions == {1, 2}

\* ------------------------------------------------------------- cells
\* pandas' missing value (float nan), as held in memory
NaN == "NaN"

\* the cell texts read_csv turns into NaN (its default na_values; the ones used here)
NaTexts == {"", "NaN", "nan", "NA"}

\* read_csv of one text cell of a non-numeric column
ParseCell(t) == IF t \in NaTexts THEN NaN ELSE t

\* to_csv of one in-memory value of a non-numeric column (na_rep is "")
SerializeCell(v) == IF v = NaN THEN "" ELSE v

\* the integers whose decimal text the model can read back
IntRange == 0 .. (MaxId + 1)

\* read_csv of one text cell of an integer column
ParseInt(t) == CHOOSE n \in IntRange : ToString(n) = t

\* to_csv of one integer
SerializeInt(n) == ToString(n)

ProjectColumns ==
    << "id", "title", "smart_aim", "problem_statement", "status", "metrics",
       "advisor", "service", "start_date", "end_date", "tags" >>

PdsaColumns == << "project_id", "cycle_name", "plan", "do", "study", "act", "date" >>

IntColumns == {"id", "project_id"}

\* ------------------------------------------------------------- tables
\* A file (or an uploaded stream): missing, unreadable as a table, or a header
\* and rows of text cells.
NoFile == [exists |-> FALSE, ok |-> FALSE, columns |-> << >>, rows |-> << >>]

Malformed == [exists |-> TRUE, ok |-> FALSE, columns |-> << >>, rows |-> << >>]

CsvFile(cols, rows) == [exists |-> TRUE, ok |-> TRUE, columns |-> cols, rows |-> rows]

\* An in-memory DataFrame: its columns and its rows of values.
DataFrame(cols, rows) == [columns |-> cols, rows |-> rows]

NoFrame == DataFrame(<< >>, << >>)

ParseRow(r) ==
    [c \in DOMAIN r |-> IF c \in IntColumns THEN ParseInt(r[c]) ELSE ParseCell(r[c])]

SerializeRow(r) ==
    [c \in DOMAIN r |-> IF c \in IntColumns THEN SerializeInt(r[c]) ELSE SerializeCell(r[c])]

\* pd.read_csv of a well-formed table
read_csv(f) == DataFrame(f.columns, [i \in DOMAIN f.rows |-> ParseRow(f.rows[i])])

\* a slip: the file is opened for appending (mode="a")
to_csv_appending(old, df) ==
    CsvFile(df.columns, old.rows \o [i \in DOMAIN df.rows |-> SerializeRow(df.rows[i])])

\* DataFrame.to_csv(path, index=False): the whole file is replaced
to_csv(old, df) == CsvFile(df.columns, [i \in DOMAIN df.rows |-> SerializeRow(df.rows[i])])

\* ------------------------------------------------------------- helpers
RECURSIVE MaxOf(_)
MaxOf(S) ==
    IF S = {} THEN 0
    ELSE LET x == CHOOSE y \in S : TRUE
             m == MaxOf(S \ {x})
         IN  IF x > m THEN x ELSE m

Ids(rows) == {rows[i].id : i \in DOMAIN rows}

\* seq without its i-th element: DataFrame.drop(index=i).reset_index(drop=True)
DropRow(rows, i) == [j \in 1 .. (Len(rows) - 1) |-> IF j < i THEN rows[j] ELSE rows[j + 1]]

OfProject(rows, d) == SelectSeq(rows, LAMBDA c : c.project_id = d)

NotOfProject(rows, d) == SelectSeq(rows, LAMBDA c : c.project_id # d)

\* ------------------------------------------------------------- inputs
\* datetime.now().strftime("%Y-%m-%d")
Today == "2024-01-01"

\* what the user may type in the Title box
TitleInputs == {"T2"}

\* what the user may pick in the Status box
StatusInputs == {"Completed"}

\* what the user may pick in the End Date box, after strftime
DateInputs == {"2024-04-01"}

\* what the user may type in the Cycle Name box
CycleInputs == {"c1"}

\* the project ids the user may type into the project_id column of the cycle editor:
\* 0 is the id of no project, 1 may be the id of another project
EditorIds == {0, 1}

\* ------------------------------------------------------------- storage initializer
ExampleProject ==
    [id |-> 1, title |-> "Example Project",
     smart_aim |-> "Increase hand hygiene compliance by 10% within 3 months",
     problem_statement |-> "Current compliance is at 60%",
     status |-> "In Progress", metrics |-> "Compliance rate", advisor |-> "Dr. Smith",
     service |-> "Infection Control", start_date |-> "2024-01-01",
     end_date |-> "2024-04-01", tags |-> "hand hygiene"]

\* storage: the data directory and the two files in it
Storage(d, p, c) == [dir |-> d, proj |-> p, pdsa |-> c]

\* a slip: the example project is written without looking for the file
ensure_data_dir_reseeding(st) ==
    Storage(TRUE,
            to_csv(st.proj, DataFrame(ProjectColumns, << ExampleProject >>)),
            IF st.pdsa.exists THEN st.pdsa
            ELSE to_csv(st.pdsa, DataFrame(PdsaColumns, << >>)))

ensure_data_dir(st) ==
    Storage(TRUE,
            IF st.proj.exists THEN st.proj
            ELSE to_csv(st.proj, DataFrame(ProjectColumns, << ExampleProject >>)),
            IF st.pdsa.exists THEN st.pdsa
            ELSE to_csv(st.pdsa, DataFrame(PdsaColumns, << >>)))

\* ------------------------------------------------------------- repository transforms
\* a slip: the number of rows plus one
next_id_by_count(rows) == Len(rows) + 1

\* projects["id"].max() + 1 if not projects.empty else 1
next_id(rows) == IF rows = << >> THEN 1 ELSE MaxOf(Ids(rows)) + 1

NewProject(new_id) ==
    [id |-> new_id, title |-> "", smart_aim |-> "", problem_statement |-> "",
     status |-> "In Progress", metrics |-> "", advisor |-> "", service |-> "",
     start_date |-> Today, end_date |-> "", tags |-> ""]

\* pd.concat([projects, new_project], ignore_index=True)
add_project(df) == DataFrame(df.columns, Append(df.rows, NewProject(next_id(df.rows))))

\* str(project.get(column, "")): the text a form box is prefilled with
FormDefault(v) == IF v = NaN THEN "nan" ELSE v

\* the form's "Save Project": every column but id is overwritten from the form
update_project(df, sel, title, status, end_date) ==
    LET old == df.rows[sel]
        new == [id |-> old.id, title |-> title,
                smart_aim |-> FormDefault(old.smart_aim),
                problem_statement |-> FormDefault(old.problem_statement),
                status |-> status,
                metrics |-> FormDefault(old.metrics),
                advisor |-> FormDefault(old.advisor),
                service |-> FormDefault(old.service),
                start_date |-> FormDefault(old.start_date),
                end_date |-> end_date,
                tags |-> FormDefault(old.tags)]
    IN  DataFrame(df.columns, [df.rows EXCEPT ![sel] = new])

\* projects.drop(index=selected_index).reset_index(drop=True)
delete_project(df, sel) == DataFrame(df.columns, DropRow(df.rows, sel))

\* a slip: the cycles are left as they are
cascade_delete_skipped(df, d) == df

\* pdsa[pdsa["project_id"] != project["id"]]
cascade_delete(df, d) == DataFrame(df.columns, NotOfProject(df.rows, d))

NewPdsa(d, cycle_name) ==
    [project_id |-> d, cycle_name |-> cycle_name, plan |-> "", do |-> "",
     study |-> "", act |-> "", date |-> Today]

\* pd.concat([pdsa, new_pdsa], ignore_index=True)
add_pdsa(df, d, cycle_name) == DataFrame(df.columns, Append(df.rows, NewPdsa(d, cycle_name)))

\* pd.concat([other_pdsa, edited_pdsa], ignore_index=True)
replace_pdsa_for_project(df, d, newRows) ==
    DataFrame(df.columns, NotOfProject(df.rows, d) \o newRows)

\* What st.data_editor(project_pdsa, num_rows="dynamic") may hand back: every
\* column is editable, rows may be added and deleted.
EditedRows(cur) ==
    {cur, << >>}
    \cup {[cur EXCEPT ![1].project_id = q] : q \in EditorIds}
    \cup {Append(cur, NewPdsa(q, "c1")) : q \in EditorIds}

\* ------------------------------------------------------------- state
VARIABLES
    dirExists,      \* os.path.exists(DATA_DIR)
    projFile,       \* data/projects.csv
    pdsaFile,       \* data/pdsa.csv
    pc,             \* per session: where its run of main() stands
    mayClick,       \* per session: whether a button may read True in its run
    handled,        \* per session: the handler its run has executed ("none": none)
    ret,            \* per session: where save_data returns to
    projects,       \* per session: the DataFrame main() holds in `projects`
    pdsa,           \* per session: the DataFrame main() holds in `pdsa`
    uploaded_proj,  \* per session: what the "Import Projects CSV" uploader holds
    uploaded_pdsa,  \* per session: what the "Import PDSA CSV" uploader holds
    runStart,       \* per session: the files as they were when its run began, kept for
                    \* a run that a plain interaction or a rerun started, until a
                    \* button's handler runs
    preSave,        \* per session: `projects` as "Add new project" / "Save Project" saved it
    edit,           \* per session: the project and the rows "Save PDSA cycles" was given
    scenario,       \* progress along seed, add project 2, add its cycle, delete it
    wroteProj,      \* per session: what it last wrote to projects.csv
    wrotePdsa,      \* per session: what it last wrote to pdsa.csv
    lastProjWriter, \* the session that wrote projects.csv last (0: none)
    lastPdsaWriter, \* the session that wrote pdsa.csv last (0: none)
    lastSaver,      \* the session whose save_data returned last (0: none)
    runs            \* per session: user-triggered runs counted under MaxRuns

files == << dirExists, projFile, pdsaFile >>

locals == << projects, pdsa >>

uploads == << uploaded_proj, uploaded_pdsa >>

writers == << wroteProj, wrotePdsa, lastProjWriter, lastPdsaWriter, lastSaver >>

vars ==
    << dirExists, projFile, pdsaFile, pc, mayClick, handled, ret, projects, pdsa, uploaded_proj,
       uploaded_pdsa, runStart, preSave, edit, scenario, wroteProj, wrotePdsa,
       lastProjWriter, lastPdsaWriter, lastSaver, runs >>

CurrentStorage == Storage(dirExists, projFile, pdsaFile)

NotSaved == [set |-> FALSE, rows |-> << >>]

NoSnapshot == [set |-> FALSE, st |-> Storage(FALSE, NoFile, NoFile)]

Snapshot == [set |-> TRUE, st |-> CurrentStorage]

NoEdit == [set |-> FALSE, d |-> 0, rows |-> << >>]

control == << mayClick, handled >>

history == << preSave, edit, scenario >>

\* ------------------------------------------------------------- initial states
\* what an existing store may hold before the first run
InitialProjFiles ==
    { NoFile, Malformed,
      to_csv(NoFile, DataFrame(ProjectColumns, << NewProject(1) >>)) }

InitialPdsaFiles ==
    { NoFile, Malformed,
      to_csv(NoFile, DataFrame(PdsaColumns, << NewPdsa(1, "c1") >>)) }

InitSessions ==
    /\ pc = [s \in Sessions |-> "idle"]
    /\ mayClick = [s \in Sessions |-> FALSE]
    /\ handled = [s \in Sessions |-> "none"]
    /\ ret = [s \in Sessions |-> "idle"]
    /\ projects = [s \in Sessions |-> NoFrame]
    /\ pdsa = [s \in Sessions |-> NoFrame]
    /\ uploaded_proj = [s \in Sessions |-> NoFile]
    /\ uploaded_pdsa = [s \in Sessions |-> NoFile]
    /\ runStart = [s \in Sessions |-> NoSnapshot]
    /\ preSave = [s \in Sessions |-> NotSaved]
    /\ edit = [s \in Sessions |-> NoEdit]
    /\ wroteProj = [s \in Sessions |-> NoFile]
    /\ wrotePdsa = [s \in Sessions |-> NoFile]
    /\ lastProjWriter = 0
    /\ lastPdsaWriter = 0
    /\ lastSaver = 0
    /\ runs = [s \in Sessions |-> 0]

\* any storage the first run may find
Init ==
    /\ dirExists \in BOOLEAN
    /\ projFile \in InitialProjFiles
    /\ pdsaFile \in InitialPdsaFiles
    /\ (projFile.exists \/ pdsaFile.exists) => dirExists
    /\ scenario = IF projFile.exists \/ pdsaFile.exists THEN "off" ELSE "start"
    /\ InitSessions

\* empty storage: no directory, no files
InitEmpty ==
    /\ dirExists = FALSE
    /\ projFile = NoFile
    /\ pdsaFile = NoFile
    /\ scenario = "start"
    /\ InitSessions

\* ------------------------------------------------------------- user interactions
\* what the user may drop on the "Import Projects CSV" uploader
ProjStreams ==
    { Malformed,
      to_csv(NoFile, DataFrame(ProjectColumns, << NewProject(3) >>)) }

\* what the user may drop on the "Import PDSA CSV" uploader
PdsaStreams ==
    { Malformed,
      to_csv(NoFile, DataFrame(PdsaColumns, << NewPdsa(3, "c1") >>)) }

\* Streamlit starts a run of main() for session s; the run's local variables are
\* fresh.  click: the user touched a widget of the page, so one button may read
\* True when the run reaches it.
StartRun(s, click, snapshot) ==
    /\ pc[s] \in {"idle", "crashed"}
    /\ pc' = [pc EXCEPT ![s] = "ensure"]
    /\ mayClick' = [mayClick EXCEPT ![s] = click]
    /\ handled' = [handled EXCEPT ![s] = "none"]
    /\ projects' = [projects EXCEPT ![s] = NoFrame]
    /\ pdsa' = [pdsa EXCEPT ![s] = NoFrame]
    /\ runStart' = [runStart EXCEPT ![s] = snapshot]
    /\ edit' = [edit EXCEPT ![s] = NoEdit]
    /\ UNCHANGED << files, ret, preSave, scenario, writers >>

\* the user touches a widget of the page: a button, a filter, a selection
Interact(s) ==
    /\ StartRun(s, TRUE, Snapshot)
    /\ UNCHANGED << uploads, runs >>

UploadProjects(s) ==
    /\ \E f \in ProjStreams : uploaded_proj' = [uploaded_proj EXCEPT ![s] = f]
    /\ StartRun(s, FALSE, NoSnapshot)
    /\ UNCHANGED << uploaded_pdsa, runs >>

UploadPdsa(s) ==
    /\ \E f \in PdsaStreams : uploaded_pdsa' = [uploaded_pdsa EXCEPT ![s] = f]
    /\ StartRun(s, FALSE, NoSnapshot)
    /\ UNCHANGED << uploaded_proj, runs >>

\* the user removes the file from an uploader
RemoveProjUpload(s) ==
    /\ uploaded_proj[s].exists
    /\ uploaded_proj' = [uploaded_proj EXCEPT ![s] = NoFile]
    /\ StartRun(s, FALSE, NoSnapshot)
    /\ UNCHANGED << uploaded_pdsa, runs >>

RemovePdsaUpload(s) ==
    /\ uploaded_pdsa[s].exists
    /\ uploaded_pdsa' = [uploaded_pdsa EXCEPT ![s] = NoFile]
    /\ StartRun(s, FALSE, NoSnapshot)
    /\ UNCHANGED << uploaded_proj, runs >>

\* an interaction counted against MaxRuns
CountedInteract(s) ==
    /\ runs[s] < MaxRuns
    /\ runs' = [runs EXCEPT ![s] = @ + 1]
    /\ StartRun(s, TRUE, Snapshot)
    /\ UNCHANGED uploads

\* ------------------------------------------------------------- load_data
\* ensure_data_dir(): its checks and creations are taken as one step
Ensure(s) ==
    /\ pc[s] = "ensure"
    /\ dirExists' = ensure_data_dir(CurrentStorage).dir
    /\ projFile' = ensure_data_dir(CurrentStorage).proj
    /\ pdsaFile' = ensure_data_dir(CurrentStorage).pdsa
    /\ pc' = [pc EXCEPT ![s] = "read_projects"]
    /\ UNCHANGED << control, ret, locals, uploads, runStart, history, writers, runs >>

\* projects = pd.read_csv(PROJECTS_FILE); a ParserError ends the run
ReadProjects(s) ==
    /\ pc[s] = "read_projects"
    /\ IF projFile.ok
       THEN /\ projects' = [projects EXCEPT ![s] = read_csv(projFile)]
            /\ pc' = [pc EXCEPT ![s] = "read_pdsa"]
            /\ UNCHANGED preSave
       ELSE /\ pc' = [pc EXCEPT ![s] = "crashed"]
            /\ preSave' = [preSave EXCEPT ![s] = NotSaved]
            /\ UNCHANGED projects
    /\ UNCHANGED << files, control, ret, pdsa, uploads, runStart, edit, scenario, writers, runs >>

\* pdsa = pd.read_csv(PDSA_FILE)
ReadPdsa(s) ==
    /\ pc[s] = "read_pdsa"
    /\ IF pdsaFile.ok
       THEN /\ pdsa' = [pdsa EXCEPT ![s] = read_csv(pdsaFile)]
            /\ pc' = [pc EXCEPT ![s] = "import_proj"]
            /\ UNCHANGED preSave
       ELSE /\ pc' = [pc EXCEPT ![s] = "crashed"]
            /\ preSave' = [preSave EXCEPT ![s] = NotSaved]
            /\ UNCHANGED pdsa
    /\ UNCHANGED << files, control, ret, projects, uploads, runStart, edit, scenario, writers,
                    runs >>

\* ------------------------------------------------------------- import
\* projects = pd.read_csv(uploaded_proj) / pdsa = pd.read_csv(uploaded_pdsa): the
\* local variable is rebound to the uploaded table
\* a slip: the uploaded rows are appended to the rows already loaded
import_table_merging(current, uploaded) ==
    DataFrame(read_csv(uploaded).columns, current.rows \o read_csv(uploaded).rows)

import_table(current, uploaded) == read_csv(uploaded)

\* if uploaded_proj is not None: projects = pd.read_csv(uploaded_proj); save_data(...)
ImportProjects(s) ==
    /\ pc[s] = "import_proj"
    /\ preSave' = [preSave EXCEPT ![s] = NotSaved]
    /\ IF ~uploaded_proj[s].exists
       THEN /\ pc' = [pc EXCEPT ![s] = "import_pdsa"]
            /\ UNCHANGED << projects, ret, scenario >>
       ELSE IF ~uploaded_proj[s].ok
       THEN /\ pc' = [pc EXCEPT ![s] = "crashed"]
            /\ UNCHANGED << projects, ret, scenario >>
       ELSE /\ projects' = [projects EXCEPT ![s] = import_table(@, uploaded_proj[s])]
            /\ pc' = [pc EXCEPT ![s] = "write_projects"]
            /\ ret' = [ret EXCEPT ![s] = "import_pdsa"]
            /\ scenario' = "off"
    /\ UNCHANGED << files, control, pdsa, uploads, runStart, edit, writers, runs >>

\* if uploaded_pdsa is not None: pdsa = pd.read_csv(uploaded_pdsa); save_data(...)
ImportPdsa(s) ==
    /\ pc[s] = "import_pdsa"
    /\ IF ~uploaded_pdsa[s].exists
       THEN /\ pc' = [pc EXCEPT ![s] = "handler"]
            /\ UNCHANGED << pdsa, ret, scenario >>
       ELSE IF ~uploaded_pdsa[s].ok
       THEN /\ pc' = [pc EXCEPT ![s] = "crashed"]
            /\ UNCHANGED << pdsa, ret, scenario >>
       ELSE /\ pdsa' = [pdsa EXCEPT ![s] = import_table(@, uploaded_pdsa[s])]
            /\ pc' = [pc EXCEPT ![s] = "write_projects"]
            /\ ret' = [ret EXCEPT ![s] = "handler"]
            /\ scenario' = "off"
    /\ UNCHANGED << files, control, projects, uploads, runStart, preSave, edit, writers,
                    runs >>

\* ------------------------------------------------------------- save_data
\* projects.to_csv(PROJECTS_FILE, index=False)
WriteProjects(s) ==
    /\ pc[s] = "write_projects"
    /\ projFile' = to_csv(projFile, projects[s])
    /\ wroteProj' = [wroteProj EXCEPT ![s] = CsvFile(projects[s].columns,
                         [i \in DOMAIN projects[s].rows |-> SerializeRow(projects[s].rows[i])])]
    /\ lastProjWriter' = s
    /\ pc' = [pc EXCEPT ![s] = "write_pdsa"]
    /\ UNCHANGED << dirExists, pdsaFile, control, ret, locals, uploads, runStart, history,
                    wrotePdsa, lastPdsaWriter, lastSaver, runs >>

\* pdsa.to_csv(PDSA_FILE, index=False), after which save_data returns
WritePdsa(s) ==
    /\ pc[s] = "write_pdsa"
    /\ pdsaFile' = to_csv(pdsaFile, pdsa[s])
    /\ wrotePdsa' = [wrotePdsa EXCEPT ![s] = CsvFile(pdsa[s].columns,
                         [i \in DOMAIN pdsa[s].rows |-> SerializeRow(pdsa[s].rows[i])])]
    /\ lastPdsaWriter' = s
    /\ lastSaver' = s
    /\ pc' = [pc EXCEPT ![s] = ret[s]]
    /\ ret' = [ret EXCEPT ![s] = "idle"]
    /\ UNCHANGED << dirExists, projFile, control, locals, uploads, runStart, history,
                    wroteProj, lastProjWriter, runs >>

\* ------------------------------------------------------------- handlers
\* a button reads True at most once per run, and only in a run the user started
\* by touching a widget
Clicked(s, button) ==
    /\ pc[s] = "handler"
    /\ mayClick[s]
    /\ handled' = [handled EXCEPT ![s] = button]
    /\ UNCHANGED mayClick

\* a slip: the handler goes on without calling save_data
CallSave_forgotten(s, to) ==
    /\ pc' = [pc EXCEPT ![s] = to]
    /\ runStart' = [runStart EXCEPT ![s] = NoSnapshot]
    /\ UNCHANGED ret

\* save_data(projects, pdsa) is called; afterwards the run goes on at `to`
CallSave(s, to) ==
    /\ pc' = [pc EXCEPT ![s] = "write_projects"]
    /\ ret' = [ret EXCEPT ![s] = to]
    /\ runStart' = [runStart EXCEPT ![s] = NoSnapshot]

\* no button reads True: the run reaches the end of main()
NoButton(s) ==
    /\ pc[s] = "handler"
    /\ pc' = [pc EXCEPT ![s] = "idle"]
    /\ UNCHANGED << files, control, ret, locals, uploads, runStart, history, writers, runs >>

\* if st.button("Add new project"): ...
AddProject(s) ==
    /\ Clicked(s, "add_project")
    /\ Len(projects[s].rows) < MaxProjects
    /\ next_id(projects[s].rows) <= MaxId
    /\ projects' = [projects EXCEPT ![s] = add_project(@)]
    /\ preSave' = [preSave EXCEPT ![s] = [set |-> TRUE, rows |-> add_project(projects[s]).rows]]
    /\ scenario' = IF scenario = "start" /\ next_id(projects[s].rows) = 2
                   THEN "added" ELSE "off"
    /\ CallSave(s, "rerun")
    /\ UNCHANGED << files, pdsa, uploads, edit, writers, runs >>

\* if st.form_submit_button("Save Project"): ... (drawn when a project is selected)
UpdateProject(s) ==
    /\ Clicked(s, "save_project")
    /\ \E sel \in DOMAIN projects[s].rows :
       \E title \in TitleInputs :
       \E status \in StatusInputs :
       \E end_date \in DateInputs :
          LET new == update_project(projects[s], sel, title, status, end_date)
          IN  /\ projects' = [projects EXCEPT ![s] = new]
              /\ preSave' = [preSave EXCEPT ![s] = [set |-> TRUE, rows |-> new.rows]]
    /\ scenario' = "off"
    /\ CallSave(s, "idle")
    /\ UNCHANGED << files, pdsa, uploads, edit, writers, runs >>

\* if st.button("Delete project"): ... (drawn when a project is selected)
DeleteProject(s) ==
    /\ Clicked(s, "delete_project")
    /\ \E sel \in DOMAIN projects[s].rows :
          LET d == projects[s].rows[sel].id
          IN  /\ projects' = [projects EXCEPT ![s] = delete_project(@, sel)]
              /\ pdsa' = [pdsa EXCEPT ![s] = cascade_delete(@, d)]
              /\ scenario' = IF scenario = "cycled" /\ d = 2 THEN "deleted" ELSE "off"
    /\ CallSave(s, "rerun")
    /\ UNCHANGED << files, uploads, preSave, edit, writers, runs >>

\* the projects whose cycle table is drawn: project_pdsa is not empty
WithCycles(s) ==
    {i \in DOMAIN projects[s].rows : OfProject(pdsa[s].rows, projects[s].rows[i].id) # << >>}

\* if st.button("Save PDSA cycles"): ... (drawn when the selected project has cycles)
SavePdsaCycles(s) ==
    /\ Clicked(s, "save_pdsa")
    /\ \E sel \in WithCycles(s) :
          LET d == projects[s].rows[sel].id
          IN  \E edited \in EditedRows(OfProject(pdsa[s].rows, d)) :
                 /\ Len(replace_pdsa_for_project(pdsa[s], d, edited).rows) <= MaxPdsa
                 /\ pdsa' = [pdsa EXCEPT ![s] = replace_pdsa_for_project(@, d, edited)]
                 /\ edit' = [edit EXCEPT ![s] = [set |-> TRUE, d |-> d, rows |-> edited]]
    /\ scenario' = "off"
    /\ CallSave(s, "idle")
    /\ UNCHANGED << files, projects, uploads, preSave, writers, runs >>

\* if st.form_submit_button("Add PDSA"): ... (drawn when a project is selected)
AddPdsa(s) ==
    /\ Clicked(s, "add_pdsa")
    /\ Len(pdsa[s].rows) < MaxPdsa
    /\ \E sel \in DOMAIN projects[s].rows :
       \E cycle_name \in CycleInputs :
          LET d == projects[s].rows[sel].id
          IN  /\ pdsa' = [pdsa EXCEPT ![s] = add_pdsa(@, d, cycle_name)]
              /\ scenario' = IF scenario = "added" /\ d = 2 THEN "cycled" ELSE "off"
    /\ CallSave(s, "idle")
    /\ UNCHANGED << files, projects, uploads, preSave, edit, writers, runs >>

\* st.experimental_rerun(): the run stops and a new one starts, no button clicked
Rerun(s) ==
    /\ pc[s] = "rerun"
    /\ pc' = [pc EXCEPT ![s] = "ensure"]
    /\ mayClick' = [mayClick EXCEPT ![s] = FALSE]
    /\ handled' = [handled EXCEPT ![s] = "none"]
    /\ projects' = [projects EXCEPT ![s] = NoFrame]
    /\ pdsa' = [pdsa EXCEPT ![s] = NoFrame]
    /\ runStart' = [runStart EXCEPT ![s] = Snapshot]
    /\ edit' = [edit EXCEPT ![s] = NoEdit]
    /\ UNCHANGED << files, ret, uploads, preSave, scenario, writers, runs >>

\* ------------------------------------------------------------- specifications
\* one step of a run of main()
Step(s) ==
    \/ Ensure(s)
    \/ ReadProjects(s)
    \/ ReadPdsa(s)
    \/ ImportProjects(s)
    \/ ImportPdsa(s)
    \/ WriteProjects(s)
    \/ WritePdsa(s)
    \/ NoButton(s)
    \/ AddProject(s)
    \/ UpdateProject(s)
    \/ DeleteProject(s)
    \/ SavePdsaCycles(s)
    \/ AddPdsa(s)
    \/ Rerun(s)

\* one session, every interaction, any initial storage
Next ==
    \/ Interact(1)
    \/ UploadProjects(1)
    \/ UploadPdsa(1)
    \/ RemoveProjUpload(1)
    \/ RemovePdsaUpload(1)
    \/ Step(1)

Spec == Init /\ [][Next]_vars

\* one session, from empty storage, the import uploaders never used
NextCrud ==
    \/ Interact(1)
    \/ Step(1)

SpecCrud == InitEmpty /\ [][NextCrud]_vars

\* two sessions against the same storage, from empty storage
NextRace == \E s \in Sessions : CountedInteract(s) \/ Step(s)

SpecRace == InitEmpty /\ [][NextRace]_vars

\* ------------------------------------------------------------- properties
\* the ids of a table of rows, in row order
IdSeq(rows) == [i \in DOMAIN rows |-> rows[i].id]

\* a save_data call of session s is under way
Saving(s) == pc[s] \in {"write_projects", "write_pdsa"}

\* C1 (part 1): the step that runs the "Delete project" handler removes exactly the
\* selected project record, leaves no cycle of its id, and keeps every cycle of
\* another id, unchanged and in the same order.
DeleteRemovesProjectAndItsCycles ==
    (pc[1] = "handler" /\ handled'[1] = "delete_project") =>
        \E sel \in DOMAIN projects[1].rows :
            LET d   == projects[1].rows[sel].id
                old == projects[1].rows
                new == projects'[1].rows
            IN  /\ Len(new) = Len(old) - 1
                /\ \A j \in DOMAIN new : new[j] = IF j < sel THEN old[j] ELSE old[j + 1]
                /\ \A i \in DOMAIN pdsa'[1].rows : pdsa'[1].rows[i].project_id # d
                /\ SelectSeq(pdsa'[1].rows, LAMBDA c : c.project_id # d)
                     = SelectSeq(pdsa[1].rows, LAMBDA c : c.project_id # d)

\* C1 (part 2): from empty storage, load (which seeds project 1), add_project (which
\* gets id 2), add_pdsa for project 2, delete_project(2): memory and then storage
\* hold no cycle and only project 1.
ScenarioEndsWithProjectOne ==
    scenario = "deleted" =>
        /\ pc[1] \in {"write_projects", "write_pdsa", "rerun"} =>
              /\ IdSeq(projects[1].rows) = << 1 >>
              /\ pdsa[1].rows = << >>
        /\ ~Saving(1) =>
              /\ IdSeq(projFile.rows) = << "1" >>
              /\ pdsaFile.rows = << >>

\* C1: delete_project removes exactly the project and exactly its cycles, and the
\* end-to-end scenario ends with no cycles and only project 1.
C1_DeleteCascade == [](ScenarioEndsWithProjectOne) /\ [][DeleteRemovesProjectAndItsCycles]_vars

\* the scenario has run to its end and the save has completed
C1_Witness == scenario = "deleted" /\ pc[1] = "rerun"

\* a delete that removed a cycle and kept a cycle of another project
C1_WitnessSurvivor ==
    /\ pc[1] = "write_projects"
    /\ handled[1] = "delete_project"
    /\ Len(pdsa[1].rows) = 1
    /\ Len(pdsaFile.rows) = 2

\* C2 (part 1): no two rows of Projects have the same id, in memory and in the file.
ProjectIdsUnique ==
    /\ \A i, j \in DOMAIN projects[1].rows :
          i # j => projects[1].rows[i].id # projects[1].rows[j].id
    /\ \A i, j \in DOMAIN projFile.rows :
          i # j => projFile.rows[i].id # projFile.rows[j].id

\* C2 (part 2): the step that runs the "Add new project" handler appends one row whose
\* id is 1 for an empty table and otherwise the largest id plus one.
AddAssignsMaxPlusOne ==
    (pc[1] = "handler" /\ handled'[1] = "add_project") =>
        LET old == projects[1].rows
            new == projects'[1].rows
        IN  /\ Len(new) = Len(old) + 1
            /\ \A i \in DOMAIN old : new[i] = old[i]
            /\ old = << >> => new[Len(new)].id = 1
            /\ old # << >> =>
                  /\ \A i \in DOMAIN old : old[i].id < new[Len(new)].id
                  /\ \E i \in DOMAIN old : old[i].id + 1 = new[Len(new)].id

\* C2: Project ids stay unique under add, update and delete from seeded storage, and
\* each added project gets max(existing ids) + 1, or 1 for the empty collection.
C2_UniqueIds == [](ProjectIdsUnique) /\ [][AddAssignsMaxPlusOne]_vars

\* "Add new project" has just given id 4 to a table holding ids 1 and 3
C2_Witness ==
    /\ pc[1] = "write_projects"
    /\ handled[1] = "add_project"
    /\ IdSeq(projects[1].rows) = << 1, 3, 4 >>

\* "Add new project" has just given id 1 to an empty table
C2_WitnessEmpty ==
    /\ pc[1] = "write_projects"
    /\ handled[1] = "add_project"
    /\ IdSeq(projects[1].rows) = << 1 >>

\* C3: whenever no save is half done, every cycle in pdsa.csv has the project_id of
\* some project in projects.csv (no save writes a cycle that references no project).
C3_ReferentialIntegrityAtSave ==
    pc[1] # "write_pdsa" =>
        \A i \in DOMAIN pdsaFile.rows :
            \E j \in DOMAIN projFile.rows :
                projFile.rows[j].id = pdsaFile.rows[i].project_id

\* C4: the Projects table read back by the load that follows the save of "Add new
\* project" or "Save Project" equals, field by field, the table that was saved.
C4_RoundTripLossless ==
    (pc[1] = "import_proj" /\ preSave[1].set) => projects[1].rows = preSave[1].rows

\* C9: the step that runs the "Save PDSA cycles" handler for project p with rows
\* newRows leaves exactly newRows as the cycles of p, keeps the cycles of the other
\* projects unchanged and in order, and leaves Projects alone.
ReplaceLeavesExactlyNewRows ==
    (pc[1] = "handler" /\ handled'[1] = "save_pdsa") =>
        LET p       == edit'[1].d
            newRows == edit'[1].rows
        IN  /\ SelectSeq(pdsa'[1].rows, LAMBDA c : c.project_id = p) = newRows
            /\ SelectSeq(pdsa'[1].rows, LAMBDA c : c.project_id # p)
                 = SelectSeq(pdsa[1].rows, LAMBDA c : c.project_id # p)
            /\ projects'[1] = projects[1]

\* C9: replace_pdsa_for_project(p, newRows) leaves exactly newRows as the cycles of p,
\* every cycle of another project in place, and Projects unchanged.
C9_ReplaceForProject == [][ReplaceLeavesExactlyNewRows]_vars

\* C5 (part 1): once the import of a well-formed stream and its save are done, the
\* collection in memory and its file hold the uploaded rows and nothing else.
ImportReplaces ==
    /\ (pc[1] = "import_pdsa" /\ uploaded_proj[1].ok) =>
          /\ projects[1].rows = read_csv(uploaded_proj[1]).rows
          /\ read_csv(projFile).rows = read_csv(uploaded_proj[1]).rows
    /\ (pc[1] = "handler" /\ uploaded_pdsa[1].ok) =>
          /\ pdsa[1].rows = read_csv(uploaded_pdsa[1]).rows
          /\ read_csv(pdsaFile).rows = read_csv(uploaded_pdsa[1]).rows

\* C5 (part 2): the import of a malformed stream ends the run with the parse error
\* and changes neither collection in memory nor either file.
MalformedImportChangesNothing ==
    (\/ pc[1] = "import_proj" /\ uploaded_proj[1] = Malformed
     \/ pc[1] = "import_pdsa" /\ uploaded_pdsa[1] = Malformed) =>
        /\ pc'[1] = "crashed"
        /\ UNCHANGED << projects, pdsa, dirExists, projFile, pdsaFile >>

\* C5: a malformed import fails and changes nothing; a well-formed import replaces
\* the whole collection and its store with the imported rows, without merging.
C5_Import == [](ImportReplaces) /\ [][MalformedImportChangesNothing]_vars

\* the projects import has replaced collection and store, then the PDSA import of a
\* malformed stream has failed, leaving the loaded cycles and their store as they were
C5_Witness ==
    /\ pc[1] = "crashed"
    /\ uploaded_proj[1].ok
    /\ uploaded_pdsa[1] = Malformed
    /\ projects[1].rows = read_csv(uploaded_proj[1]).rows
    /\ read_csv(projFile).rows = projects[1].rows
    /\ pdsa[1].rows # << >>
    /\ read_csv(pdsaFile).rows = pdsa[1].rows

\* save_data has run in the run of session s that is ending
SavedInRun(s) ==
    \/ handled[s] # "none"
    \/ uploaded_proj[s].ok
    \/ uploaded_pdsa[s].ok

\* C6: when a run in which a mutating operation ran (a button's handler or an
\* import) reaches its end or its rerun, both files hold exactly the serialized
\* in-memory collections: the operation was followed by a save of both.
C6_SavedAfterMutation ==
    (pc[1] \in {"idle", "rerun"} /\ SavedInRun(1)) =>
        /\ projFile = CsvFile(projects[1].columns,
                              [i \in DOMAIN projects[1].rows |-> SerializeRow(projects[1].rows[i])])
        /\ pdsaFile = CsvFile(pdsa[1].columns,
                              [i \in DOMAIN pdsa[1].rows |-> SerializeRow(pdsa[1].rows[i])])

\* the run of "Add PDSA" has ended with two cycles in memory and in the file
C6_Witness ==
    /\ pc[1] = "idle"
    /\ handled[1] = "add_pdsa"
    /\ Len(pdsa[1].rows) = 2
    /\ Len(pdsaFile.rows) = 2

\* C7 (part 1): calling ensure_data_dir on its own result changes nothing.
EnsureIdempotent ==
    ensure_data_dir(ensure_data_dir(CurrentStorage)) = ensure_data_dir(CurrentStorage)

\* C7 (part 2): the step that runs ensure_data_dir leaves an existing store as it is,
\* creates a missing Projects store with the one example record (id 1) and a missing
\* PDSA store with no rows and the seven PdsaCycle columns.
EnsureKeepsOrSeeds ==
    (pc[1] = "ensure" /\ pc'[1] # "ensure") =>
        /\ dirExists'
        /\ projFile.exists => projFile' = projFile
        /\ pdsaFile.exists => pdsaFile' = pdsaFile
        /\ ~projFile.exists =>
              /\ projFile'.ok
              /\ projFile'.columns = ProjectColumns
              /\ Len(projFile'.rows) = 1
              /\ projFile'.rows[1].id = "1"
              /\ projFile'.rows[1].title = "Example Project"
        /\ ~pdsaFile.exists =>
              /\ pdsaFile'.ok
              /\ pdsaFile'.rows = << >>
              /\ Len(pdsaFile'.columns) = 7
              /\ pdsaFile'.columns = PdsaColumns

\* C7: ensure_data_dir is idempotent, never overwrites an existing store, and seeds
\* the missing ones.
C7_EnsureStorage == [](EnsureIdempotent) /\ [][EnsureKeepsOrSeeds]_vars

\* ensure_data_dir has run where a malformed PDSA store existed and the Projects store
\* did not: the first is untouched, the second holds the example record
C7_Witness ==
    /\ pc[1] = "read_projects"
    /\ lastSaver = 0
    /\ pdsaFile = Malformed
    /\ projFile.ok
    /\ Len(projFile.rows) = 1
    /\ projFile.rows[1].title = "Example Project"

\* ensure_data_dir has run where a Projects store other than the seed existed
C7_WitnessKept ==
    /\ pc[1] = "read_projects"
    /\ lastSaver = 0
    /\ projFile.ok
    /\ projFile.rows[1].title = ""

\* C10: a run in which the user triggered no mutating action (no button's handler
\* ran, no file was put on or taken off an uploader) and which found both stores in
\* place ends with both stores as it found them, so a mutation saved earlier is
\* still there.
C10_QuietRunKeepsStores ==
    (/\ pc[1] = "idle"
     /\ runStart[1].set
     /\ runStart[1].st.proj.exists
     /\ runStart[1].st.pdsa.exists) =>
        /\ projFile = runStart[1].st.proj
        /\ pdsaFile = runStart[1].st.pdsa

\* both sessions have saved and neither is inside save_data
BothSaved == \A s \in Sessions : wrotePdsa[s].exists /\ ~Saving(s)

\* C8 as stated: after both sessions' saves are complete, both files are as the
\* session whose save_data returned last wrote them.
C8_LastSaverWinsBoth ==
    BothSaved =>
        /\ projFile = wroteProj[lastSaver]
        /\ pdsaFile = wrotePdsa[lastSaver]

\* C8 as amended: each file, once written by a session, holds exactly what the
\* session that wrote that file last wrote to it, whole and unmerged.
C8_LastWriterWinsPerFile ==
    /\ lastProjWriter # 0 => projFile = wroteProj[lastProjWriter]
    /\ lastPdsaWriter # 0 => pdsaFile = wrotePdsa[lastPdsaWriter]

\* both saves are complete, the two files were last written by different sessions,
\* and the sessions wrote different tables
C8_Witness ==
    /\ BothSaved
    /\ lastProjWriter # lastPdsaWriter
    /\ wroteProj[1] # wroteProj[2]
    /\ wrotePdsa[1] # wrotePdsa[2]

====
